---- MODULE Spec2Model ----
(***************************************************************************)
(* Model of src/src/channel.ts: the DingTalk channel's access-token cache, *)
(* the interactive-card registry with its periodic sweep, and the          *)
(* throttled card update wrapper.                                          *)
(*                                                                         *)
(* Time is the value Date.now() returns, in milliseconds.  A timer fires   *)
(* at its deadline: time does not pass an armed timer's deadline, and      *)
(* timers that are due at the same instant fire in either order.  Network  *)
(* calls complete at any time after they were started.                     *)
(***************************************************************************)
EXTENDS Integers, Sequences, FiniteSets, TLC

\* ------------------------------------------------------------------------
\* Program constants
\* ------------------------------------------------------------------------
CARD_UPDATE_MIN_INTERVAL == 500
CARD_UPDATE_TIMEOUT == 60000
CARD_CACHE_TTL == 3600000
CLEANUP_INTERVAL == 1800000
TOKEN_MARGIN == 60000
MAX_RETRIES == 3

\* ------------------------------------------------------------------------
\* Bounds of the model
\* ------------------------------------------------------------------------
\* Date.now() when the module is loaded
T0 == 10000000
\* number of update calls (throttled or direct) in one behaviour
MaxCalls == 3
\* number of small clock steps in one behaviour
MaxTicks == 2
\* number of runs of the periodic sweep in one behaviour
MaxSweeps == 3
\* number of update calls in one behaviour of the registry's specification
MaxRegistryCalls == 2
\* number of update calls in one behaviour of the error handling's specification
MaxErrorCalls == 2

\* number of getAccessToken calls in one behaviour
MaxTokenCalls == 3
\* number of clock steps in one behaviour of the token cache's specification
MaxTokenTicks == 2
\* number of failed fetch attempts in one behaviour of SpecToken
MaxFetchFailures == 1
\* number of inbound messages in one behaviour
MaxMessages == 1
\* number of card operations in one behaviour of SpecCredential
MaxRequests == 2
\* number of times an account is started in one behaviour
MaxStarts == 2
\* number of update calls in one behaviour of the gateway's specification
MaxGatewayCalls == 2
\* number of entries of an allowFrom list
MaxAllowFrom == 2

CardIds == {"k1", "k2"}
Texts == {"a", "b"}
TickSteps == {100}
\* the application identities (clientId with its clientSecret)
Identities == {"appA", "appB"}
\* expireIn of a token response, in seconds
ExpireIns == {60, 120}
TokenTickSteps == {30000}
\* HTTP status of a failed update
Statuses == {404, 410, 403, 500}

VARIABLES
    now,                   \* Date.now()
    cardInstances,         \* Map cardBizId -> CardInstance
    cardUpdateTimestamps,  \* Map cardBizId -> time of the last dispatch
    cardUpdateTimeouts,    \* Map cardBizId -> timer handle
    timers,                \* the armed setTimeout timers
    cleanupIntervalId,     \* "armed" or "null": the sweep's setInterval
    sweepDue,              \* next deadline of the sweep interval
    usedIds,               \* card ids randomUUID has produced
    creating,              \* sendInteractiveCard calls awaiting the provider
    calls,                 \* per card, every update call: its inputs, its
                           \* position (pc) and whether its PUT reached the
                           \* provider (put)
    dispatches,            \* log, per card: the dispatches the throttler began
    finalized,             \* log: runs of the inactivity callback
    evicted,               \* log: the card ids the sweep has removed
    ticks,                 \* number of small clock steps taken
    sweeps                 \* number of sweeps run

cardVars == <<now, cardInstances, cardUpdateTimestamps, cardUpdateTimeouts,
              timers, cleanupIntervalId, sweepDue, usedIds, creating, calls,
              dispatches, finalized, evicted, ticks, sweeps>>

\* the access token cache
VARIABLES
    accessToken,           \* the cached token, or NoToken
    accessTokenExpiry,     \* the expiry the cache holds for it
    tokenCalls             \* every getAccessToken call: its inputs, its
                           \* position (pc) and its result

tokenVars == <<accessToken, accessTokenExpiry, tokenCalls>>

\* the direct-message policy
VARIABLES
    handled                \* the inbound messages handleDingTalkMessage has
                           \* handled, each with its outcome

authVars == <<handled>>

\* the requests to the provider
VARIABLES
    attempts               \* per getAccessToken call of a card operation:
                           \* the attempts of the operation's request

netVars == <<attempts>>

\* the gateway
VARIABLES
    accounts               \* per account: whether startAccount has run, the
                           \* stopped flag of its closure, and whether the
                           \* abort signal fired and stop() was called

gatewayVars == <<accounts>>

\* the outcomes of sendInteractiveCard
VARIABLES
    sendResults            \* log: per call that has returned or thrown, the
                           \* card id it generated and its outcome

createVars == <<sendResults>>

\* the reply to one inbound message in card mode
VARIABLES
    reply                  \* the phase of handleDingTalkMessage, its
                           \* currentCardBizId, and the sendInteractiveCard
                           \* calls made for the message

replyVars == <<reply>>

vars == <<cardVars, tokenVars, authVars, netVars, gatewayVars, createVars, replyVars>>

\* ------------------------------------------------------------------------
\* Helpers
\* ------------------------------------------------------------------------
EmptyMap == [x \in {} |-> 0]

\* Map.delete
Remove(f, k) == [x \in DOMAIN f \ {k} |-> f[x]]

\* Map.set
Put(f, k, v) == [x \in DOMAIN f \cup {k} |-> IF x = k THEN v ELSE f[x]]

Min(S) == CHOOSE m \in S : \A x \in S : m <= x

Max(S) == CHOOSE m \in S : \A x \in S : x <= m

\* the handle setTimeout returned for timer t of a card
Handle(t) == <<t.call, t.kind>>

\* clearTimeout(h) for a handle h stored for card k: a handle of a timer that
\* fired or was cleared is ignored
ClearTimeout(ts, k, h) == {t \in ts : ~(t.card = k /\ Handle(t) = h)}

RECURSIVE SumLen(_, _)
SumLen(f, S) ==
    IF S = {} THEN 0
    ELSE LET k == CHOOSE x \in S : TRUE IN Len(f[k]) + SumLen(f, S \ {k})

\* number of update calls made so far
NumCalls == SumLen(calls, CardIds)

\* ------------------------------------------------------------------------
\* Initial state: the module has just been loaded
\* ------------------------------------------------------------------------
CardInit ==
    /\ now = T0
    /\ cardInstances = EmptyMap
    /\ cardUpdateTimestamps = EmptyMap
    /\ cardUpdateTimeouts = EmptyMap
    /\ timers = {}
    /\ cleanupIntervalId = "armed"
    /\ sweepDue = T0 + CLEANUP_INTERVAL
    /\ usedIds = {}
    /\ creating = {}
    /\ calls = [k \in CardIds |-> <<>>]
    /\ dispatches = [k \in CardIds |-> <<>>]
    /\ finalized = {}
    /\ evicted = {}
    /\ ticks = 0
    /\ sweeps = 0

\* ------------------------------------------------------------------------
\* cleanupCardCache: the periodic sweep
\* ------------------------------------------------------------------------
\* a sweep that lets a record live one sweep period longer
IsExpiredLate(instance, t) ==
    t - instance.lastUpdated > CARD_CACHE_TTL + CLEANUP_INTERVAL

IsExpired(instance, t) == t - instance.lastUpdated > CARD_CACHE_TTL

Expired(t) == {k \in DOMAIN cardInstances : IsExpired(cardInstances[k], t)}

CleanupCardCache ==
    /\ cleanupIntervalId = "armed"
    /\ sweepDue <= now
    /\ LET ex == Expired(now)
       IN /\ cardInstances' = [k \in DOMAIN cardInstances \ ex |-> cardInstances[k]]
          /\ cardUpdateTimestamps' =
                 [k \in DOMAIN cardUpdateTimestamps \ ex |-> cardUpdateTimestamps[k]]
          /\ timers' = {t \in timers :
                           ~(/\ t.card \in ex
                             /\ t.card \in DOMAIN cardUpdateTimeouts
                             /\ cardUpdateTimeouts[t.card] = Handle(t))}
          /\ cardUpdateTimeouts' =
                 [k \in DOMAIN cardUpdateTimeouts \ ex |-> cardUpdateTimeouts[k]]
    /\ evicted' = evicted \cup Expired(now)
    /\ sweepDue' = sweepDue + CLEANUP_INTERVAL
    /\ sweeps' = sweeps + 1
    /\ UNCHANGED <<now, cleanupIntervalId, usedIds, creating, calls, dispatches,
                   finalized, ticks, tokenVars, authVars, netVars, gatewayVars, createVars, replyVars>>

\* stopCardCacheCleanup: the interval and the stored timers are cleared
StopCardCacheCleanupEffect ==
    /\ cleanupIntervalId' = "null"
    /\ timers' = {t \in timers :
                     ~(/\ t.card \in DOMAIN cardUpdateTimeouts
                       /\ cardUpdateTimeouts[t.card] = Handle(t))}
    /\ cardUpdateTimeouts' = EmptyMap
    /\ UNCHANGED <<now, cardInstances, cardUpdateTimestamps, sweepDue, usedIds,
                   creating, calls, dispatches, finalized, evicted, ticks, sweeps,
                   tokenVars, authVars, netVars, createVars, replyVars>>

\* stopCardCacheCleanup, called on its own
StopCardCacheCleanup == StopCardCacheCleanupEffect /\ UNCHANGED gatewayVars

\* ------------------------------------------------------------------------
\* sendInteractiveCard
\* ------------------------------------------------------------------------
\* the call throws at its first check: the configuration has neither
\* robotCode nor clientId
SendInteractiveCardUnconfigured ==
    /\ sendResults' = sendResults \cup {[id |-> "none", outcome |-> "error"]}
    /\ UNCHANGED <<cardVars, tokenVars, authVars, netVars, gatewayVars, replyVars>>

\* up to the await of the provider: the card id is a fresh random UUID
SendInteractiveCardEffect(k) ==
    /\ k \notin usedIds
    /\ usedIds' = usedIds \cup {k}
    /\ creating' = creating \cup {k}
    /\ UNCHANGED <<now, cardInstances, cardUpdateTimestamps, cardUpdateTimeouts,
                   timers, cleanupIntervalId, sweepDue, calls, dispatches,
                   finalized, evicted, ticks, sweeps, tokenVars, authVars,
                   netVars, gatewayVars, createVars>>

\* sendInteractiveCard called on its own
SendInteractiveCard(k) == SendInteractiveCardEffect(k) /\ UNCHANGED replyVars

\* the create call succeeded: the card instance is cached
CreateSucceedEffect(k) ==
    /\ k \in creating
    /\ creating' = creating \ {k}
    /\ cardInstances' = Put(cardInstances, k,
           [cardBizId |-> k, conversationId |-> "cid", createdAt |-> now,
            lastUpdated |-> now])
    /\ sendResults' = sendResults \cup {[id |-> k, outcome |-> "created"]}
    /\ UNCHANGED <<now, cardUpdateTimestamps, cardUpdateTimeouts, timers,
                   cleanupIntervalId, sweepDue, usedIds, calls, dispatches,
                   finalized, evicted, ticks, sweeps, tokenVars, authVars,
                   netVars, gatewayVars>>

CreateSucceed(k) == CreateSucceedEffect(k) /\ UNCHANGED replyVars

\* a failure that leaves a record of the card behind
CreateFailRegistered(k) ==
    /\ k \in creating
    /\ creating' = creating \ {k}
    /\ cardInstances' = Put(cardInstances, k,
           [cardBizId |-> k, conversationId |-> "cid", createdAt |-> now,
            lastUpdated |-> now])
    /\ sendResults' = sendResults \cup {[id |-> k, outcome |-> "error"]}
    /\ UNCHANGED <<now, cardUpdateTimestamps, cardUpdateTimeouts, timers,
                   cleanupIntervalId, sweepDue, usedIds, calls, dispatches,
                   finalized, evicted, ticks, sweeps, tokenVars, authVars,
                   netVars, gatewayVars>>

\* the token fetch or the create call failed after its retries: the error
\* leaves sendInteractiveCard
CreateFailEffect(k) ==
    /\ k \in creating
    /\ creating' = creating \ {k}
    /\ sendResults' = sendResults \cup {[id |-> k, outcome |-> "error"]}
    /\ UNCHANGED <<now, cardInstances, cardUpdateTimestamps, cardUpdateTimeouts,
                   timers, cleanupIntervalId, sweepDue, usedIds, calls,
                   dispatches, finalized, evicted, ticks, sweeps, tokenVars,
                   authVars, netVars, gatewayVars>>

CreateFail(k) == CreateFailEffect(k) /\ UNCHANGED replyVars

\* ------------------------------------------------------------------------
\* updateInteractiveCard
\* ------------------------------------------------------------------------
\* the statuses the README names
TerminalDocumented == {404, 410}

Terminal == {404, 410, 403}

\* the record of a call at the moment it is made: err is the status of the
\* error its PUT ended with (0: none), retry tells that the card's previous
\* call had failed when this one was made
NewCall(k, text, api, pc) ==
    [text |-> text, at |-> now, api |-> api, pc |-> pc, put |-> FALSE,
     nd |-> Len(dispatches[k]), known |-> k \in DOMAIN cardInstances,
     err |-> 0,
     retry |-> calls[k] # <<>> /\ calls[k][Len(calls[k])].pc = "rejected"]

\* a call of updateInteractiveCard made outside the throttler (sendMessage
\* with a cardBizId, the deliver callback): it runs up to its first await
UpdateInteractiveCard(k, text) ==
    /\ calls' = [calls EXCEPT ![k] = Append(@, NewCall(k, text, "direct", "updating"))]
    /\ UNCHANGED <<now, cardInstances, cardUpdateTimestamps, cardUpdateTimeouts,
                   timers, cleanupIntervalId, sweepDue, usedIds, creating,
                   dispatches, finalized, evicted, ticks, sweeps, tokenVars, authVars, netVars, gatewayVars, createVars, replyVars>>

\* getAccessToken threw: the error leaves updateInteractiveCard before its
\* try block, and no PUT is sent
TokenFail(k, n) ==
    /\ calls[k][n].pc = "updating"
    /\ calls' = [calls EXCEPT ![k][n].pc = "rejected"]
    /\ UNCHANGED <<now, cardInstances, cardUpdateTimestamps, cardUpdateTimeouts,
                   timers, cleanupIntervalId, sweepDue, usedIds, creating,
                   dispatches, finalized, evicted, ticks, sweeps, tokenVars, authVars, netVars, gatewayVars, createVars, replyVars>>

\* what the throttler does when its await of updateInteractiveCard returns:
\* it arms the inactivity timer and stores its handle
ArmInactivity(k, n) ==
    IF calls[k][n].api = "throttled"
    THEN /\ timers' = timers \cup
                {[card |-> k, call |-> n, kind |-> "idle",
                  deadline |-> now + CARD_UPDATE_TIMEOUT]}
         /\ cardUpdateTimeouts' = Put(cardUpdateTimeouts, k, <<n, "idle">>)
    ELSE UNCHANGED <<timers, cardUpdateTimeouts>>

\* a touch that creates the record of a card that has none
TouchOrInsert(k) ==
    IF k \in DOMAIN cardInstances
    THEN [cardInstances EXCEPT ![k].lastUpdated = now]
    ELSE Put(cardInstances, k,
             [cardBizId |-> k, conversationId |-> "cid", createdAt |-> now,
              lastUpdated |-> now])

\* const instance = cardInstances.get(cardBizId);
\* if (instance) instance.lastUpdated = Date.now()
Touch(k) ==
    IF k \in DOMAIN cardInstances
    THEN [cardInstances EXCEPT ![k].lastUpdated = now]
    ELSE cardInstances

\* the token was obtained and the PUT succeeded (retryWithBackoff returned):
\* the cached instance, if any, is touched and the caller continues
PutSucceed(k, n) ==
    /\ calls[k][n].pc = "updating"
    /\ cardInstances' = Touch(k)
    /\ ArmInactivity(k, n)
    /\ calls' = [calls EXCEPT ![k][n].pc = "resolved", ![k][n].put = TRUE]
    /\ UNCHANGED <<now, cardUpdateTimestamps, cleanupIntervalId, sweepDue,
                   usedIds, creating, dispatches, finalized, evicted, ticks, sweeps,
                   tokenVars, authVars, netVars, gatewayVars, createVars, replyVars>>

\* a catch block that logs the error and does not rethrow it: the call
\* resolves
PutFailSwallowed(k, n, status) ==
    /\ calls[k][n].pc = "updating"
    /\ cardInstances' =
           IF status \in Terminal THEN Remove(cardInstances, k) ELSE cardInstances
    /\ calls' = [calls EXCEPT ![k][n].pc = "resolved", ![k][n].put = TRUE,
                              ![k][n].err = status]
    /\ UNCHANGED <<now, cardUpdateTimestamps, cardUpdateTimeouts, timers,
                   cleanupIntervalId, sweepDue, usedIds, creating, dispatches,
                   finalized, evicted, ticks, sweeps, tokenVars, authVars, netVars, gatewayVars, createVars, replyVars>>

\* the token was obtained and retryWithBackoff gave up on the PUT, its last
\* error carrying the given status: the catch block removes the card on a
\* terminal status and rethrows
PutFail(k, n, status) ==
    /\ calls[k][n].pc = "updating"
    /\ cardInstances' =
           IF status \in Terminal THEN Remove(cardInstances, k) ELSE cardInstances
    /\ calls' = [calls EXCEPT ![k][n].pc = "rejected", ![k][n].put = TRUE,
                              ![k][n].err = status]
    /\ UNCHANGED <<now, cardUpdateTimestamps, cardUpdateTimeouts, timers,
                   cleanupIntervalId, sweepDue, usedIds, creating, dispatches,
                   finalized, evicted, ticks, sweeps, tokenVars, authVars, netVars, gatewayVars, createVars, replyVars>>

\* ------------------------------------------------------------------------
\* updateInteractiveCardThrottled
\* ------------------------------------------------------------------------
\* one timestamp kept for all cards: the time of the last dispatch of any card
LastUpdateAnyCard(k) ==
    IF DOMAIN cardUpdateTimestamps = {} THEN 0
    ELSE Max({cardUpdateTimestamps[x] : x \in DOMAIN cardUpdateTimestamps})

\* cardUpdateTimestamps.get(cardBizId) || 0
LastUpdate(k) == IF k \in DOMAIN cardUpdateTimestamps THEN cardUpdateTimestamps[k] ELSE 0

\* enough time has passed since the last dispatch: update immediately
SendNow(timeSinceLastUpdate) == timeSinceLastUpdate >= CARD_UPDATE_MIN_INTERVAL

\* a delay that waits the whole interval from the moment of the call
DelayFromCall(timeSinceLastUpdate) == CARD_UPDATE_MIN_INTERVAL

\* const delay = CARD_UPDATE_MIN_INTERVAL - timeSinceLastUpdate
Delay(timeSinceLastUpdate) == CARD_UPDATE_MIN_INTERVAL - timeSinceLastUpdate

\* a call that clears the stored timer of every card
AfterClearAllCards(k) ==
    {t \in timers :
        ~(t.card \in DOMAIN cardUpdateTimeouts /\ cardUpdateTimeouts[t.card] = Handle(t))}

\* the timers left armed once the call has cleared the card's stored handle
AfterClear(k) ==
    IF k \in DOMAIN cardUpdateTimeouts
    THEN ClearTimeout(timers, k, cardUpdateTimeouts[k])
    ELSE timers

\* the call, up to its first await (immediate path) or up to its return of
\* the pending promise (scheduled path)
UpdateInteractiveCardThrottled(k, text) ==
    /\ LET n == Len(calls[k]) + 1
           timeSinceLastUpdate == now - LastUpdate(k)
       IN IF SendNow(timeSinceLastUpdate)
          THEN /\ cardUpdateTimestamps' = Put(cardUpdateTimestamps, k, now)
               /\ timers' = AfterClear(k)
               /\ calls' = [calls EXCEPT
                      ![k] = Append(@, NewCall(k, text, "throttled", "updating"))]
               /\ dispatches' = [dispatches EXCEPT
                      ![k] = Append(@, [text |-> text, at |-> now, call |-> n, nc |-> n])]
               /\ UNCHANGED cardUpdateTimeouts
          ELSE /\ timers' = AfterClear(k) \cup
                      {[card |-> k, call |-> n, kind |-> "dispatch",
                        deadline |-> now + Delay(timeSinceLastUpdate)]}
               /\ cardUpdateTimeouts' = Put(cardUpdateTimeouts, k, <<n, "dispatch">>)
               /\ calls' = [calls EXCEPT
                      ![k] = Append(@, NewCall(k, text, "throttled", "scheduled"))]
               /\ UNCHANGED <<cardUpdateTimestamps, dispatches>>
    /\ UNCHANGED <<now, cardInstances, cleanupIntervalId, sweepDue, usedIds,
                   creating, finalized, evicted, ticks, sweeps, tokenVars, authVars, netVars, gatewayVars, createVars, replyVars>>

\* the scheduled timer's callback, up to its first await: it dispatches the
\* text its call captured
DispatchTimerFire(t) ==
    /\ t \in timers
    /\ t.kind = "dispatch"
    /\ t.deadline <= now
    /\ timers' = timers \ {t}
    /\ cardUpdateTimestamps' = Put(cardUpdateTimestamps, t.card, now)
    /\ calls' = [calls EXCEPT ![t.card][t.call].pc = "updating"]
    /\ dispatches' = [dispatches EXCEPT
           ![t.card] = Append(@, [text |-> calls[t.card][t.call].text, at |-> now,
                                  call |-> t.call, nc |-> Len(calls[t.card])])]
    /\ UNCHANGED <<now, cardInstances, cardUpdateTimeouts, cleanupIntervalId,
                   sweepDue, usedIds, creating, finalized, evicted, ticks, sweeps,
                   tokenVars, authVars, netVars, gatewayVars, createVars, replyVars>>

\* the inactivity timer's callback: the card's entry is deleted and the card
\* is logged as finalized
InactivityTimerFire(t) ==
    /\ t \in timers
    /\ t.kind = "idle"
    /\ t.deadline <= now
    /\ timers' = timers \ {t}
    /\ cardUpdateTimeouts' = Remove(cardUpdateTimeouts, t.card)
    /\ finalized' = finalized \cup
           {[card |-> t.card, nd |-> Len(dispatches[t.card]),
             nc |-> Len(calls[t.card])]}
    /\ UNCHANGED <<now, cardInstances, cardUpdateTimestamps, cleanupIntervalId,
                   sweepDue, usedIds, creating, calls, dispatches, evicted,
                   ticks, sweeps, tokenVars, authVars, netVars, gatewayVars, createVars, replyVars>>

\* ------------------------------------------------------------------------
\* The clock
\* ------------------------------------------------------------------------
TimerDeadlines == {t.deadline : t \in timers}

Deadlines ==
    TimerDeadlines \cup (IF cleanupIntervalId = "armed" THEN {sweepDue} ELSE {})

\* a little time passes, not beyond the deadline of an armed timer
Tick ==
    /\ ticks < MaxTicks
    /\ \E d \in TickSteps :
          /\ \A dl \in Deadlines : now + d <= dl
          /\ now' = now + d
    /\ ticks' = ticks + 1
    /\ UNCHANGED <<cardInstances, cardUpdateTimestamps, cardUpdateTimeouts,
                   timers, cleanupIntervalId, sweepDue, usedIds, creating, calls,
                   dispatches, finalized, evicted, sweeps, tokenVars, authVars, netVars, gatewayVars, createVars, replyVars>>

\* nothing happens until the next setTimeout timer is due
AdvanceToTimer ==
    /\ TimerDeadlines # {}
    /\ Min(Deadlines) > now
    /\ Min(Deadlines) \in TimerDeadlines
    /\ now' = Min(Deadlines)
    /\ UNCHANGED <<cardInstances, cardUpdateTimestamps, cardUpdateTimeouts,
                   timers, cleanupIntervalId, sweepDue, usedIds, creating, calls,
                   dispatches, finalized, evicted, ticks, sweeps, tokenVars, authVars, netVars, gatewayVars, createVars, replyVars>>

\* nothing happens until the sweep is due
AdvanceToSweep ==
    /\ cleanupIntervalId = "armed"
    /\ Min(Deadlines) > now
    /\ Min(Deadlines) = sweepDue
    /\ now' = sweepDue
    /\ UNCHANGED <<cardInstances, cardUpdateTimestamps, cardUpdateTimeouts,
                   timers, cleanupIntervalId, sweepDue, usedIds, creating, calls,
                   dispatches, finalized, evicted, ticks, sweeps, tokenVars, authVars, netVars, gatewayVars, createVars, replyVars>>

\* let accessToken: string | null = null
NoToken == [owner |-> "none", expires |-> 0]

TokenInit ==
    /\ accessToken = NoToken
    /\ accessTokenExpiry = 0
    /\ tokenCalls = <<>>

\* ------------------------------------------------------------------------
\* Spec: the throttler, for the time until the first sweep is due
\* ------------------------------------------------------------------------
AuthInit == handled = {}

\* no request has been sent
NetInit == attempts = EmptyMap

\* the accounts of the configuration
Accounts == {"default", "work"}

\* no account has been started
GatewayInit ==
    accounts = [a \in Accounts |->
                   [started |-> FALSE, stopped |-> FALSE, aborted |-> FALSE,
                    stopCalled |-> FALSE, starts |-> 0]]

\* sendInteractiveCard has not been called
CreateInit == sendResults = {}

\* no inbound message is being handled
ReplyInit == reply = [phase |-> "start", currentCardBizId |-> "none", sends |-> <<>>]

Init ==
    /\ CardInit /\ TokenInit /\ AuthInit /\ NetInit /\ GatewayInit
    /\ CreateInit /\ ReplyInit

\* the outcomes of the updates in flight, a failed PUT ending with a status
\* of S
CompletionWith(S) ==
    \/ \E k \in CardIds : \E n \in DOMAIN calls[k] : TokenFail(k, n)
    \/ \E k \in CardIds : \E n \in DOMAIN calls[k] : PutSucceed(k, n)
    \/ \E k \in CardIds : \E n \in DOMAIN calls[k] : \E status \in S :
          PutFail(k, n, status)

Completion == CompletionWith(Statuses)

\* no card is registered in Spec, where every status of a failed PUT has the
\* same effect
ThrottlerStatuses == {500}

TimerFire ==
    \/ \E t \in timers : DispatchTimerFire(t)
    \/ \E t \in timers : InactivityTimerFire(t)

Next ==
    \/ \E k \in CardIds, text \in Texts :
          NumCalls < MaxCalls /\ UpdateInteractiveCardThrottled(k, text)
    \/ CompletionWith(ThrottlerStatuses)
    \/ TimerFire
    \/ Tick
    \/ AdvanceToTimer

Spec == Init /\ [][Next]_vars

\* ------------------------------------------------------------------------
\* SpecRegistry: the card registry with its sweep, over several sweep periods
\* (time passes from one timer to the next; the content of an update plays no
\* part in the registry)
\* ------------------------------------------------------------------------
RegistryTexts == {"a"}
\* one terminal status and one that is not
RegistryStatuses == {404, 500}

NextRegistry ==
    \/ \E k \in CardIds : SendInteractiveCard(k)
    \/ \E k \in CardIds : CreateSucceed(k)
    \/ \E k \in CardIds : CreateFail(k)
    \/ \E k \in CardIds, text \in RegistryTexts :
          NumCalls < MaxRegistryCalls /\ UpdateInteractiveCard(k, text)
    \/ \E k \in CardIds, text \in RegistryTexts :
          NumCalls < MaxRegistryCalls /\ UpdateInteractiveCardThrottled(k, text)
    \/ CompletionWith(RegistryStatuses)
    \/ TimerFire
    \/ sweeps < MaxSweeps /\ CleanupCardCache
    \/ AdvanceToTimer
    \/ AdvanceToSweep

SpecRegistry == Init /\ [][NextRegistry]_vars

\* ------------------------------------------------------------------------
\* SpecErrors: creation and updates of cards with every outcome of the PUT
\* ------------------------------------------------------------------------
NextErrors ==
    \/ \E k \in CardIds : SendInteractiveCard(k)
    \/ \E k \in CardIds : CreateSucceed(k)
    \/ \E k \in CardIds : CreateFail(k)
    \/ \E k \in CardIds, text \in RegistryTexts :
          NumCalls < MaxErrorCalls /\ UpdateInteractiveCard(k, text)
    \/ \E k \in CardIds, text \in RegistryTexts :
          NumCalls < MaxErrorCalls /\ UpdateInteractiveCardThrottled(k, text)
    \/ Completion
    \/ TimerFire
    \/ AdvanceToTimer

SpecErrors == Init /\ [][NextErrors]_vars

\* ------------------------------------------------------------------------
\* SpecTargets: the throttled updates of two cards, registered or not, with
\* the removal of a card on a terminal status
\* ------------------------------------------------------------------------
NextTargets ==
    \/ \E k \in CardIds : SendInteractiveCard(k)
    \/ \E k \in CardIds : CreateSucceed(k)
    \/ \E k \in CardIds : CreateFail(k)
    \/ \E k \in CardIds, text \in RegistryTexts :
          NumCalls < MaxCalls /\ UpdateInteractiveCardThrottled(k, text)
    \/ CompletionWith(RegistryStatuses)
    \/ TimerFire
    \/ AdvanceToTimer

SpecTargets == Init /\ [][NextTargets]_vars

\* ------------------------------------------------------------------------
\* SpecCreate: cards are created, with every outcome of sendInteractiveCard,
\* while cards are updated through the throttler and time passes
\* ------------------------------------------------------------------------
NextCreate ==
    \/ SendInteractiveCardUnconfigured
    \/ \E k \in CardIds : SendInteractiveCard(k)
    \/ \E k \in CardIds : CreateSucceed(k)
    \/ \E k \in CardIds : CreateFail(k)
    \/ \E k \in CardIds, text \in RegistryTexts :
          NumCalls < MaxErrorCalls /\ UpdateInteractiveCardThrottled(k, text)
    \/ CompletionWith(ThrottlerStatuses)
    \/ TimerFire
    \/ Tick
    \/ AdvanceToTimer

SpecCreate == Init /\ [][NextCreate]_vars

\* ------------------------------------------------------------------------
\* SpecShutdown: the throttler with a shutdown of the gateway
\* (stopCardCacheCleanup): no update is requested after the shutdown, and
\* the calls in flight complete
\* ------------------------------------------------------------------------
NextShutdown ==
    \/ \E k \in CardIds, text \in RegistryTexts :
          /\ NumCalls < MaxCalls
          /\ cleanupIntervalId = "armed"
          /\ UpdateInteractiveCardThrottled(k, text)
    \/ CompletionWith(ThrottlerStatuses)
    \/ TimerFire
    \/ AdvanceToTimer
    \/ cleanupIntervalId = "armed" /\ StopCardCacheCleanup

SpecShutdown == Init /\ [][NextShutdown]_vars

\* ------------------------------------------------------------------------
\* SpecSettle: the behaviours of SpecShutdown in which network calls
\* complete and timers fire
\* ------------------------------------------------------------------------
SpecSettle ==
    /\ Init
    /\ [][NextShutdown]_vars
    /\ WF_vars(CompletionWith(ThrottlerStatuses))
    /\ WF_vars(TimerFire)
    /\ WF_vars(AdvanceToTimer)

\* ------------------------------------------------------------------------
\* gateway.startAccount and what it returns
\* ------------------------------------------------------------------------
\* the account has been started and its closure's stopped flag is not set
Running(a) == accounts[a].started /\ ~accounts[a].stopped

\* startAccount for an account that is not running: the client connects, the
\* abort listener is registered with a new stopped flag, and stop is returned
StartAccount(a) ==
    /\ ~Running(a)
    /\ accounts[a].starts < MaxStarts
    /\ accounts' = [accounts EXCEPT
           ![a] = [started |-> TRUE, stopped |-> FALSE, aborted |-> FALSE,
                   stopCalled |-> FALSE, starts |-> @.starts + 1]]
    /\ UNCHANGED <<cardVars, tokenVars, authVars, netVars, createVars, replyVars>>

\* the abort signal of the account fires: the listener sets the stopped flag
\* and records the stop
Abort(a) ==
    /\ accounts[a].started
    /\ ~accounts[a].aborted
    /\ accounts' = [accounts EXCEPT ![a].aborted = TRUE, ![a].stopped = TRUE]
    /\ UNCHANGED <<cardVars, tokenVars, authVars, netVars, createVars, replyVars>>

\* stop() of the account is called: it returns at once if the stopped flag
\* is set, else it sets the flag, records the stop and calls
\* stopCardCacheCleanup
Stop(a) ==
    /\ accounts[a].started
    /\ ~accounts[a].stopCalled
    /\ accounts' = [accounts EXCEPT ![a].stopCalled = TRUE, ![a].stopped = TRUE]
    /\ IF accounts[a].stopped
       THEN UNCHANGED <<cardVars, tokenVars, authVars, netVars, createVars, replyVars>>
       ELSE StopCardCacheCleanupEffect

\* ------------------------------------------------------------------------
\* SpecGateway: the accounts are started, aborted and stopped in any order,
\* and cards are updated while an account is running
\* ------------------------------------------------------------------------
NextGateway ==
    \/ \E a \in Accounts : StartAccount(a)
    \/ \E a \in Accounts : Abort(a)
    \/ \E a \in Accounts : Stop(a)
    \/ \E k \in CardIds, text \in RegistryTexts :
          /\ NumCalls < MaxGatewayCalls
          /\ \E a \in Accounts : Running(a)
          /\ UpdateInteractiveCardThrottled(k, text)
    \/ CompletionWith(ThrottlerStatuses)
    \/ TimerFire
    \/ AdvanceToTimer

SpecGateway == Init /\ [][NextGateway]_vars

\* ------------------------------------------------------------------------
\* handleDingTalkMessage in card mode: the thinking message and the deliver
\* callback of one inbound message
\* ------------------------------------------------------------------------
\* a call of sendInteractiveCard made for the message, awaiting the provider
NewSend(kind, k) == [kind |-> kind, id |-> k, pc |-> "creating"]

\* showThinking is not false: the thinking card is sent and awaited
BeginThinking(k) ==
    /\ reply.phase = "start"
    /\ reply' = [reply EXCEPT !.phase = "thinking",
                              !.sends = Append(@, NewSend("thinking", k))]
    /\ SendInteractiveCardEffect(k)

\* showThinking is false: the dispatcher is created at once
SkipThinking ==
    /\ reply.phase = "start"
    /\ reply' = [reply EXCEPT !.phase = "replying"]
    /\ UNCHANGED <<cardVars, tokenVars, authVars, netVars, gatewayVars, createVars>>

\* the thinking card was created: its id is recorded
ThinkingCreated ==
    /\ reply.phase = "thinking"
    /\ reply' = [reply EXCEPT !.phase = "replying",
                              !.currentCardBizId = reply.sends[1].id,
                              !.sends[1].pc = "created"]
    /\ CreateSucceedEffect(reply.sends[1].id)

\* the thinking card failed: the error is caught and logged
ThinkingFailed ==
    /\ reply.phase = "thinking"
    /\ reply' = [reply EXCEPT !.phase = "replying", !.sends[1].pc = "failed"]
    /\ CreateFailEffect(reply.sends[1].id)

\* deliver is called with a text while no card id is recorded: it calls
\* sendInteractiveCard and awaits it
DeliverCreate(k) ==
    /\ reply.phase = "replying"
    /\ reply.currentCardBizId = "none"
    /\ reply' = [reply EXCEPT !.sends = Append(@, NewSend("deliver", k))]
    /\ SendInteractiveCardEffect(k)

\* deliver is called with a text while a card id is recorded: it calls
\* updateInteractiveCard for that card and awaits it
DeliverUpdate(text) ==
    /\ reply.phase = "replying"
    /\ reply.currentCardBizId # "none"
    /\ UpdateInteractiveCard(reply.currentCardBizId, text)

\* the card of the i-th call was created: deliver records its id
DeliverCreated(i) ==
    /\ reply.sends[i].kind = "deliver"
    /\ reply.sends[i].pc = "creating"
    /\ reply' = [reply EXCEPT !.currentCardBizId = reply.sends[i].id,
                              !.sends[i].pc = "created"]
    /\ CreateSucceedEffect(reply.sends[i].id)

\* the i-th call failed: deliver catches the error and returns ok: false
DeliverFailed(i) ==
    /\ reply.sends[i].kind = "deliver"
    /\ reply.sends[i].pc = "creating"
    /\ reply' = [reply EXCEPT !.sends[i].pc = "failed"]
    /\ CreateFailEffect(reply.sends[i].id)

\* ------------------------------------------------------------------------
\* SpecReply: one inbound message in card mode, the calls of deliver being
\* free to overlap
\* ------------------------------------------------------------------------
NextReply ==
    \/ \E k \in CardIds : BeginThinking(k)
    \/ SkipThinking
    \/ ThinkingCreated
    \/ ThinkingFailed
    \/ \E k \in CardIds : DeliverCreate(k)
    \/ \E text \in Texts : NumCalls < MaxErrorCalls /\ DeliverUpdate(text)
    \/ \E i \in DOMAIN reply.sends : DeliverCreated(i)
    \/ \E i \in DOMAIN reply.sends : DeliverFailed(i)
    \/ Completion

SpecReply == Init /\ [][NextReply]_vars

\* ------------------------------------------------------------------------
\* getAccessToken
\* ------------------------------------------------------------------------
\* a check of the cached token that does not look at its expiry
CachedUsableAnyAge(t) == accessToken # NoToken

\* a check of the cached token that leaves out the safety margin
CachedUsableNoMargin(t) == accessToken # NoToken /\ accessTokenExpiry > t

\* accessToken && accessTokenExpiry > now + 60000
CachedUsable(t) == accessToken # NoToken /\ accessTokenExpiry > t + TOKEN_MARGIN

\* accessTokenExpiry = now + expireIn * 1000, now being the time of the call
NewExpiry(calledAt, expireIn) == calledAt + expireIn * 1000

\* retryWithBackoff tries once more after the attempt-th attempt failed, and
\* one more than maxRetries allows
RetryAgainInclusive(attempt) == attempt <= MAX_RETRIES

\* retryWithBackoff(fn, {maxRetries: 3}) tries once more after the attempt-th
\* attempt failed, up to maxRetries attempts in all
RetryAgain(attempt) == attempt < MAX_RETRIES

\* the call, up to its return of the cached token or up to the await of the
\* first fetch attempt; attempt counts the fetch attempts made, error is the
\* attempt whose error the call threw (0: none)
GetAccessToken(id) ==
    /\ LET call == [identity |-> id, at |-> now,
                    seen |-> [token |-> accessToken, expiry |-> accessTokenExpiry],
                    pc |-> "fetching", fetched |-> TRUE, attempt |-> 1, error |-> 0,
                    response |-> [token |-> NoToken, expireIn |-> 0], result |-> NoToken, returnedAt |-> 0]
       IN tokenCalls' = Append(tokenCalls,
              IF CachedUsable(now)
              THEN [call EXCEPT !.pc = "returned", !.fetched = FALSE, !.attempt = 0,
                                !.result = accessToken, !.returnedAt = now]
              ELSE call)
    /\ UNCHANGED <<cardVars, accessToken, accessTokenExpiry, authVars, netVars, gatewayVars, createVars, replyVars>>

\* the provider answers the pending attempt of call n: it issues a token for
\* the identity of the request, valid for expireIn seconds from now
ProviderIssues(n, expireIn) ==
    /\ tokenCalls[n].pc = "fetching"
    /\ tokenCalls' = [tokenCalls EXCEPT
           ![n].pc = "responded",
           ![n].response =
               [token |-> [owner |-> tokenCalls[n].identity,
                           expires |-> now + expireIn * 1000],
                expireIn |-> expireIn]]
    /\ UNCHANGED <<cardVars, accessToken, accessTokenExpiry, authVars, netVars, gatewayVars, createVars, replyVars>>

\* the response arrives: the callback writes the cache and the call returns
\* the token
FetchReturns(n) ==
    /\ tokenCalls[n].pc = "responded"
    /\ accessToken' = tokenCalls[n].response.token
    /\ accessTokenExpiry' = NewExpiry(tokenCalls[n].at, tokenCalls[n].response.expireIn)
    /\ tokenCalls' = [tokenCalls EXCEPT
           ![n].pc = "returned",
           ![n].result = tokenCalls[n].response.token,
           ![n].returnedAt = now]
    /\ UNCHANGED <<cardVars, authVars, netVars, gatewayVars, createVars, replyVars>>

\* the pending attempt of call n fails: retryWithBackoff makes another
\* attempt, or it gives up and the call throws the error of this attempt;
\* the cache is left as it is
FetchFails(n) ==
    /\ tokenCalls[n].pc = "fetching"
    /\ tokenCalls' =
           IF RetryAgain(tokenCalls[n].attempt)
           THEN [tokenCalls EXCEPT ![n].attempt = @ + 1]
           ELSE [tokenCalls EXCEPT ![n].pc = "failed",
                                   ![n].error = tokenCalls[n].attempt]
    /\ UNCHANGED <<cardVars, accessToken, accessTokenExpiry, authVars, netVars, gatewayVars, createVars, replyVars>>

\* the number of fetch attempts of call c that have failed
FailedAttempts(c) ==
    IF c.pc = "failed" THEN c.attempt
    ELSE IF c.attempt = 0 THEN 0 ELSE c.attempt - 1

RECURSIVE SumFailed(_)
SumFailed(cs) ==
    IF cs = <<>> THEN 0 ELSE FailedAttempts(Head(cs)) + SumFailed(Tail(cs))

\* the number of fetch attempts that have failed so far
FetchFailures == SumFailed(tokenCalls)

\* time passes
TokenTick ==
    /\ ticks < MaxTokenTicks
    /\ \E d \in TokenTickSteps :
          /\ \A dl \in Deadlines : now + d <= dl
          /\ now' = now + d
    /\ ticks' = ticks + 1
    /\ UNCHANGED <<cardInstances, cardUpdateTimestamps, cardUpdateTimeouts,
                   timers, cleanupIntervalId, sweepDue, usedIds, creating, calls,
                   dispatches, finalized, evicted, sweeps, tokenVars, authVars, netVars, gatewayVars, createVars, replyVars>>

\* ------------------------------------------------------------------------
\* SpecToken: the access token cache
\* ------------------------------------------------------------------------
NextToken ==
    \/ \E id \in Identities :
          Len(tokenCalls) < MaxTokenCalls /\ GetAccessToken(id)
    \/ \E n \in DOMAIN tokenCalls : \E expireIn \in ExpireIns :
          ProviderIssues(n, expireIn)
    \/ \E n \in DOMAIN tokenCalls : FetchReturns(n)
    \/ \E n \in DOMAIN tokenCalls :
          FetchFailures < MaxFetchFailures /\ FetchFails(n)
    \/ TokenTick

SpecToken == Init /\ [][NextToken]_vars

\* ------------------------------------------------------------------------
\* SpecRetry: the access token cache of one identity, every fetch attempt
\* being free to fail
\* ------------------------------------------------------------------------
RetryIdentities == {"appA"}

NextRetry ==
    \/ \E id \in RetryIdentities :
          Len(tokenCalls) < MaxTokenCalls /\ GetAccessToken(id)
    \/ \E n \in DOMAIN tokenCalls : \E expireIn \in ExpireIns :
          ProviderIssues(n, expireIn)
    \/ \E n \in DOMAIN tokenCalls : FetchReturns(n)
    \/ \E n \in DOMAIN tokenCalls : FetchFails(n)
    \/ TokenTick

SpecRetry == Init /\ [][NextRetry]_vars

\* ------------------------------------------------------------------------
\* The request of a card operation (sendInteractiveCard,
\* updateInteractiveCard): the operation awaits getAccessToken, then hands
\* its HTTP call, with the token in a header, to retryWithBackoff
\* ------------------------------------------------------------------------
\* one attempt of the request of the operation that made token call n: the
\* HTTP call is sent now with the token the operation holds; usable tells
\* whether getAccessToken, called at this moment, would return that token
\* from the cache
Attempt(n) ==
    [at |-> now, token |-> tokenCalls[n].result,
     tokenAt |-> tokenCalls[n].returnedAt,
     usable |-> CachedUsable(now) /\ accessToken = tokenCalls[n].result,
     pc |-> "sent"]

\* the last attempt made so far for the request of token call n
LastAttempt(n) == attempts[n][Len(attempts[n])]

\* getAccessToken has returned to the operation, which continues at once
\* and sends the first attempt of its request
SendRequest(n) ==
    /\ tokenCalls[n].pc = "returned"
    /\ n \notin DOMAIN attempts
    /\ attempts' = Put(attempts, n, <<Attempt(n)>>)
    /\ UNCHANGED <<cardVars, tokenVars, authVars, gatewayVars, createVars, replyVars>>

\* the provider answers the attempt: retryWithBackoff returns
AttemptSucceeds(n) ==
    /\ n \in DOMAIN attempts
    /\ LastAttempt(n).pc = "sent"
    /\ attempts' = [attempts EXCEPT ![n][Len(attempts[n])].pc = "ok"]
    /\ UNCHANGED <<cardVars, tokenVars, authVars, gatewayVars, createVars, replyVars>>

\* the attempt fails
AttemptFails(n) ==
    /\ n \in DOMAIN attempts
    /\ LastAttempt(n).pc = "sent"
    /\ attempts' = [attempts EXCEPT ![n][Len(attempts[n])].pc = "failed"]
    /\ UNCHANGED <<cardVars, tokenVars, authVars, gatewayVars, createVars, replyVars>>

\* retryWithBackoff, its wait over, calls the operation's function again:
\* the function sends the HTTP call with the token it captured
RetryRequest(n) ==
    /\ n \in DOMAIN attempts
    /\ LastAttempt(n).pc = "failed"
    /\ RetryAgain(Len(attempts[n]))
    /\ attempts' = [attempts EXCEPT ![n] = Append(@, Attempt(n))]
    /\ UNCHANGED <<cardVars, tokenVars, authVars, gatewayVars, createVars, replyVars>>

\* the operations whose getAccessToken has returned and that have not yet
\* continued
Resuming == {n \in DOMAIN tokenCalls : tokenCalls[n].pc = "returned"} \ DOMAIN attempts

\* time passes, once every operation whose token has arrived has continued
RequestTick == Resuming = {} /\ TokenTick

\* ------------------------------------------------------------------------
\* SpecCredential: card operations of one identity, each with its token and
\* the attempts of its request
\* ------------------------------------------------------------------------
NextCredential ==
    \/ \E id \in RetryIdentities :
          Len(tokenCalls) < MaxRequests /\ GetAccessToken(id)
    \/ \E n \in DOMAIN tokenCalls : \E expireIn \in ExpireIns :
          ProviderIssues(n, expireIn)
    \/ \E n \in DOMAIN tokenCalls : FetchReturns(n)
    \/ \E n \in DOMAIN tokenCalls :
          FetchFailures < MaxFetchFailures /\ FetchFails(n)
    \/ \E n \in DOMAIN tokenCalls : SendRequest(n)
    \/ \E n \in DOMAIN tokenCalls : AttemptSucceeds(n)
    \/ \E n \in DOMAIN tokenCalls : AttemptFails(n)
    \/ \E n \in DOMAIN tokenCalls : RetryRequest(n)
    \/ RequestTick

SpecCredential == Init /\ [][NextCredential]_vars

\* ------------------------------------------------------------------------
\* The direct-message policy: normalizeAllowFrom, isSenderAllowed and the
\* authorization step of handleDingTalkMessage. A string is the sequence of
\* its characters.
\* ------------------------------------------------------------------------
\* the entries an allowFrom list is made of in this model
EntryChoices ==
    { <<"u", "1">>, <<" ", "U", "1", " ">>, <<"D", "D", ":", "u", "2">>,
      <<"*">>, <<" ">> }

\* the allowFrom lists of the configuration
AllowFromLists ==
    UNION {[1..len -> EntryChoices] : len \in 0..MaxAllowFrom}

\* the sender ids of inbound messages; <<>> is a message without sender id
SenderIds == { <<"u", "1">>, <<"U", "1">>, <<"u", "2">>, <<"u", "3">>, <<>> }

DmPolicies == {"open", "pairing", "allowlist"}

\* String.prototype.toLowerCase, on the characters of this model
LowerChar(c) ==
    CASE c = "U" -> "u"
      [] c = "D" -> "d"
      [] OTHER -> c

ToLowerCase(str) == [i \in 1..Len(str) |-> LowerChar(str[i])]

\* String.prototype.trim
RECURSIVE TrimStart(_)
TrimStart(str) ==
    IF str # <<>> /\ Head(str) = " " THEN TrimStart(Tail(str)) ELSE str

RECURSIVE TrimEnd(_)
TrimEnd(str) ==
    IF str # <<>> /\ str[Len(str)] = " "
    THEN TrimEnd(SubSeq(str, 1, Len(str) - 1))
    ELSE str

Trim(str) == TrimEnd(TrimStart(str))

\* the alternatives of /^(dingtalk|dd|ding):/i, each with its colon
ChannelPrefixes ==
    { <<"d", "i", "n", "g", "t", "a", "l", "k", ":">>, <<"d", "d", ":">>,
      <<"d", "i", "n", "g", ":">> }

StartsWithIgnoreCase(str, prefix) ==
    /\ Len(str) >= Len(prefix)
    /\ ToLowerCase(SubSeq(str, 1, Len(prefix))) = prefix

\* value.replace(/^(dingtalk|dd|ding):/i, '')
StripChannelPrefix(str) ==
    IF \E p \in ChannelPrefixes : StartsWithIgnoreCase(str, p)
    THEN LET p == CHOOSE q \in ChannelPrefixes : StartsWithIgnoreCase(str, q)
         IN SubSeq(str, Len(p) + 1, Len(str))
    ELSE str

\* Array.prototype.map
MapSeq(Op(_), list) == [i \in 1..Len(list) |-> Op(list[i])]

NonEmpty(str) == str # <<>>

NotWildcard(str) == str # <<"*">>

\* Array.prototype.includes
Includes(list, value) == \E i \in 1..Len(list) : list[i] = value

NormalizeAllowFrom(list) ==
    LET entries == SelectSeq(MapSeq(Trim, list), NonEmpty)
        normalized == MapSeq(StripChannelPrefix, SelectSeq(entries, NotWildcard))
    IN [entries |-> normalized,
        entriesLower |-> MapSeq(ToLowerCase, normalized),
        hasWildcard |-> Includes(entries, <<"*">>),
        hasEntries |-> Len(entries) > 0]

IsSenderAllowed(allow, senderId) ==
    IF ~allow.hasEntries THEN TRUE
    ELSE IF allow.hasWildcard THEN TRUE
    ELSE senderId # <<>> /\ Includes(allow.entriesLower, ToLowerCase(senderId))

\* the authorization step of handleDingTalkMessage for an inbound message
\* with text: a direct message under the allowlist policy whose sender is
\* not allowed is answered with the access-denied notice and dropped; every
\* other message goes on to the agent
Authorize(isDirect, dmPolicy, allowFrom, senderId) ==
    IF /\ isDirect
       /\ dmPolicy = "allowlist"
       /\ ~IsSenderAllowed(NormalizeAllowFrom(allowFrom), senderId)
    THEN "blocked"
    ELSE "processed"

HandleDingTalkMessage(isDirect, dmPolicy, allowFrom, senderId) ==
    /\ handled' = handled \cup
           {[isDirect |-> isDirect, dmPolicy |-> dmPolicy, allowFrom |-> allowFrom,
             senderId |-> senderId,
             outcome |-> Authorize(isDirect, dmPolicy, allowFrom, senderId)]}
    /\ UNCHANGED <<cardVars, tokenVars, netVars, gatewayVars, createVars, replyVars>>

\* ------------------------------------------------------------------------
\* SpecPolicy: inbound messages under every policy and allowFrom list
\* ------------------------------------------------------------------------
NextPolicy ==
    \E isDirect \in BOOLEAN, dmPolicy \in DmPolicies,
       allowFrom \in AllowFromLists, senderId \in SenderIds :
        /\ Cardinality(handled) < MaxMessages
        /\ HandleDingTalkMessage(isDirect, dmPolicy, allowFrom, senderId)

SpecPolicy == Init /\ [][NextPolicy]_vars

\* ------------------------------------------------------------------------
\* Claims about the access token cache
\* ------------------------------------------------------------------------
\* the calls of an identity whose fetch is under way
Fetching(id) ==
    {n \in DOMAIN tokenCalls :
        tokenCalls[n].identity = id /\ tokenCalls[n].pc \in {"fetching", "responded"}}

\* C5 (single-flight refresh): concurrent calls of getAccessToken for one
\* identity that find no valid cached token share one fetch: at no time are
\* two fetches for the same identity under way.
C5_SingleFlight == \A id \in Identities : Cardinality(Fetching(id)) <= 1

\* the cache a call found held no token, or one that expires within the margin
SawNoUsable(c) == c.seen.token = NoToken \/ c.seen.expiry <= c.at + TOKEN_MARGIN

\* C6 (validity margin): a token returned without a fetch really expires
\* more than 60 s after the moment of return, and a call that finds no token
\* cached, or a cached expiry not more than 60 s ahead, fetches.
C6_ValidityMargin ==
    \A n \in DOMAIN tokenCalls :
        LET c == tokenCalls[n]
        IN /\ (c.pc = "returned" /\ ~c.fetched)
                  => c.result.expires > c.returnedAt + TOKEN_MARGIN
           /\ SawNoUsable(c) => c.fetched

\* two fetches that were under way at the same time have both written the
\* cache, with different lifetimes, and a later call returned the cached token
C6_Witness ==
    \E n \in DOMAIN tokenCalls :
        /\ tokenCalls[n].pc = "returned"
        /\ ~tokenCalls[n].fetched
        /\ \E m, p \in 1..(n - 1) :
              /\ m < p
              /\ tokenCalls[p].at < tokenCalls[m].returnedAt
              /\ tokenCalls[m].pc = "returned" /\ tokenCalls[m].fetched
              /\ tokenCalls[p].pc = "returned" /\ tokenCalls[p].fetched
              /\ tokenCalls[m].response.expireIn # tokenCalls[p].response.expireIn

\* C7 (per-identity credentials): getAccessToken called for an identity
\* never returns a token that was fetched for another identity.
C7_PerIdentity ==
    \A n \in DOMAIN tokenCalls :
        tokenCalls[n].pc = "returned"
            => tokenCalls[n].result.owner = tokenCalls[n].identity

\* C17 (credential fetch retry): getAccessToken makes at most 3 fetch
\* attempts; a call whose fetch succeeds, also after 2 failed attempts,
\* returns the token of the successful response; a call fails only when 3
\* attempts have failed, and it throws the error of the last one.
C17_FetchRetry ==
    \A n \in DOMAIN tokenCalls :
        LET c == tokenCalls[n]
        IN /\ c.attempt <= 3
           /\ (c.pc = "returned" /\ c.fetched) => c.result = c.response.token
           /\ c.pc = "failed" => (c.attempt = 3 /\ c.error = 3)

\* one call returned the token of its third attempt and another call failed
\* after its third attempt
C17_Witness ==
    /\ \E n \in DOMAIN tokenCalls :
          /\ tokenCalls[n].pc = "returned"
          /\ tokenCalls[n].attempt = 3
          /\ tokenCalls[n].result = tokenCalls[n].response.token
          /\ tokenCalls[n].result # NoToken
    /\ \E n \in DOMAIN tokenCalls :
          tokenCalls[n].pc = "failed" /\ tokenCalls[n].error = 3

\* the calls that failed: their refresh exhausted its attempts
Failed == {m \in DOMAIN tokenCalls : tokenCalls[m].pc = "failed"}

\* the calls that returned the cached token without a fetch
CacheHits ==
    {n \in DOMAIN tokenCalls : tokenCalls[n].pc = "returned" /\ ~tokenCalls[n].fetched}

\* C18 as stated (no stale credential after a failed refresh): once a refresh
\* has exhausted its attempts, the credential the failed call found in the
\* cache is discarded (unless a fetch that succeeded since wrote the cache),
\* no later call returns it, and no token is returned at or after its expiry.
C18_StaleDiscarded ==
    /\ \A m \in Failed :
          (/\ tokenCalls[m].seen.token # NoToken
           /\ ~\E p \in DOMAIN tokenCalls :
                 /\ tokenCalls[p].pc = "returned"
                 /\ tokenCalls[p].fetched
                 /\ tokenCalls[p].returnedAt >= tokenCalls[m].at)
              => accessToken = NoToken
    /\ \A n \in CacheHits : \A m \in Failed :
          m < n => tokenCalls[n].seen # tokenCalls[m].seen
    /\ \A n \in DOMAIN tokenCalls :
          tokenCalls[n].pc = "returned"
              => tokenCalls[n].result.expires > tokenCalls[n].returnedAt

\* C18 amended: the credential a failed call found stays in the cache, but
\* no later call returns it (a later call is served from the cache only after
\* the cache was written anew), and no token is returned from the cache at or
\* after its expiry.
C18_NoStaleServed ==
    /\ \A n \in CacheHits : \A m \in Failed :
          m < n => tokenCalls[n].seen # tokenCalls[m].seen
    /\ \A n \in CacheHits :
          tokenCalls[n].result.expires > tokenCalls[n].returnedAt

\* a refresh failed with a credential in the cache, which a later call found
\* still cached and did not return: it fetched a new one
C18_Witness ==
    \E m \in Failed : \E n \in DOMAIN tokenCalls :
        /\ m < n
        /\ tokenCalls[m].seen.token # NoToken
        /\ tokenCalls[n].at > tokenCalls[m].at
        /\ tokenCalls[n].seen = tokenCalls[m].seen
        /\ tokenCalls[n].fetched
        /\ tokenCalls[n].pc = "returned"

\* ------------------------------------------------------------------------
\* Claims about the throttler
\* ------------------------------------------------------------------------
\* the throttled calls for card k that arrived less than the minimum interval
\* after the card's i-th dispatch began, that dispatch being the card's last
\* one when they arrived
Window(k, i) ==
    {n \in DOMAIN calls[k] :
        /\ calls[k][n].api = "throttled"
        /\ calls[k][n].nd = i
        /\ calls[k][n].at - dispatches[k][i].at < CARD_UPDATE_MIN_INTERVAL}

\* the dispatches made for the calls in W
MadeFor(k, W) == {j \in DOMAIN dispatches[k] : dispatches[k][j].call \in W}

\* C1 (coalescing): the throttled calls c1..cN for one card that all arrive
\* less than CARD_UPDATE_MIN_INTERVAL after the card's last dispatch began
\* lead to at most one dispatch, and that dispatch carries the content of cN.
C1_Coalescing ==
    \A k \in CardIds : \A i \in DOMAIN dispatches[k] :
        LET W == Window(k, i)
        IN W # {} =>
              /\ Cardinality(MadeFor(k, W)) <= 1
              /\ \A j \in MadeFor(k, W) :
                    dispatches[k][j].text = calls[k][Max(W)].text

\* the throttled calls for card k among its first nc calls
ThrottledUpTo(k, nc) == {n \in 1..nc : calls[k][n].api = "throttled"}

\* C2 (ordering): every dispatch carries the content of the most recent
\* throttled call made for its card before the dispatch began, so content of
\* an older call is never dispatched after a newer call was made.
C2_Ordering ==
    \A k \in CardIds : \A j \in DOMAIN dispatches[k] :
        dispatches[k][j].text =
            calls[k][Max(ThrottledUpTo(k, dispatches[k][j].nc))].text

\* C3 (rate limit): any two dispatches of the throttler for one card begin at
\* least CARD_UPDATE_MIN_INTERVAL apart.
C3_RateLimit ==
    \A k \in CardIds : \A i, j \in DOMAIN dispatches[k] :
        i < j => dispatches[k][j].at - dispatches[k][i].at >= CARD_UPDATE_MIN_INTERVAL

\* the dispatches of the throttler for card k that have not completed
InFlight(k) ==
    {n \in DOMAIN calls[k] :
        calls[k][n].api = "throttled" /\ calls[k][n].pc = "updating"}

\* C4 (per-card serialization): at most one update of a card is in flight at
\* any time: the throttler begins no dispatch for a card while an earlier
\* dispatch for the same card has not completed.
C4_Serialized == \A k \in CardIds : Cardinality(InFlight(k)) <= 1

\* C8 (idle finalization): once the inactivity callback has finalized a card
\* that received no update since its last dispatch began, a further update
\* for that card is not dispatched.
C8_IdleFinalized ==
    \A f \in finalized :
        (f.nd >= 1 /\ dispatches[f.card][f.nd].nc = f.nc)
            => Len(dispatches[f.card]) = f.nd

\* ------------------------------------------------------------------------
\* Claims about the registry
\* ------------------------------------------------------------------------
\* C9 (update on a target that is not open): an update requested for a card
\* id that is not in the registry fails (it does not resolve) and sends no
\* request to the provider.
C9_UnknownNotSent ==
    \A k \in CardIds : \A n \in DOMAIN calls[k] :
        ~calls[k][n].known => (~calls[k][n].put /\ calls[k][n].pc # "resolved")

\* the sweep has just run: it ran at the present instant
JustSwept == sweeps >= 1 /\ now = sweepDue - CLEANUP_INTERVAL

\* the time for which the record of card k has not been touched
Age(k) == now - cardInstances[k].lastUpdated

\* C10 as stated (TTL eviction): once the sweep has run, no record remains
\* whose lastUpdated is CARD_CACHE_TTL or more in the past.
C10_SweepEvictsAtTtl ==
    JustSwept => \A k \in DOMAIN cardInstances : Age(k) < CARD_CACHE_TTL

\* C10 amended: once the sweep has run, no record remains whose lastUpdated
\* is more than CARD_CACHE_TTL in the past.
C10_SweepEvictsPastTtl ==
    JustSwept => \A k \in DOMAIN cardInstances : Age(k) <= CARD_CACHE_TTL

\* a sweep has just evicted one card and kept another whose record has been
\* untouched for exactly CARD_CACHE_TTL
C10_Witness ==
    /\ JustSwept
    /\ \E k \in evicted : k \notin DOMAIN cardInstances
    /\ \E k \in DOMAIN cardInstances : Age(k) = CARD_CACHE_TTL

\* C11 (no timer after eviction): once the sweep has evicted a card, no
\* timer of that card, scheduled dispatch timer or inactivity timer, is armed
\* (so none can fire), whatever was in flight or stored when the sweep ran.
C11_NoTimerAfterEviction == \A t \in timers : t.card \notin evicted

\* C12 (terminal provider error): in the step in which an update fails, the
\* call rejects; if its PUT ended with status 404, 410 or 403 the card's
\* record is no longer in cardInstances when the call rejects, and after any
\* other failure cardInstances is as it was.
C12_TerminalError ==
    [][\A k \in CardIds : \A n \in DOMAIN calls[k] :
          (calls[k][n].pc = "updating" /\ calls'[k][n].pc \notin {"updating", "resolved"})
              => /\ calls'[k][n].pc = "rejected"
                 /\ calls'[k][n].err \in {404, 410, 403}
                        => k \notin DOMAIN cardInstances'
                 /\ calls'[k][n].err \notin {404, 410, 403}
                        => cardInstances' = cardInstances]_vars

\* an update of a registered card was rejected with status 403 and the card's
\* record is gone, and another was rejected with status 500 and its card's
\* record is kept
C12_Witness ==
    /\ \E k \in CardIds : \E n \in DOMAIN calls[k] :
          /\ calls[k][n].known
          /\ calls[k][n].pc = "rejected"
          /\ calls[k][n].err = 403
          /\ k \notin DOMAIN cardInstances
    /\ \E k \in CardIds : \E n \in DOMAIN calls[k] :
          /\ calls[k][n].known
          /\ calls[k][n].pc = "rejected"
          /\ calls[k][n].err = 500
          /\ k \in DOMAIN cardInstances

\* C13 (leak-free shutdown): once stopCardCacheCleanup has run, no timer of
\* the module is armed: the sweep's interval is cleared and so is every
\* scheduled dispatch timer and every inactivity timer.
C13_NoTimerAfterShutdown == cleanupIntervalId = "null" => timers = {}

\* C14 (streaming replies are throttled): the updates of one card that the
\* deliver callback and sendMessage issue begin at least
\* CARD_UPDATE_MIN_INTERVAL apart.
C14_StreamingThrottled ==
    \A k \in CardIds : \A m, n \in DOMAIN calls[k] :
        (m < n /\ calls[k][m].api = "direct" /\ calls[k][n].api = "direct")
            => calls[k][n].at - calls[k][m].at >= CARD_UPDATE_MIN_INTERVAL

\* the throttled calls made for card k
Throttled(k) == {n \in DOMAIN calls[k] : calls[k][n].api = "throttled"}

\* C15 (first dispatch is never throttled): the first throttled update of a
\* card is dispatched at the moment of the call, however soon after the
\* card's creation or after a dispatch for another card it arrives.
C15_FirstImmediate ==
    \A k \in CardIds :
        Throttled(k) # {} =>
            LET n == Min(Throttled(k))
            IN /\ calls[k][n].pc # "scheduled"
               /\ dispatches[k] # <<>>
               /\ dispatches[k][1].call = n
               /\ dispatches[k][1].at = calls[k][n].at

\* the first throttled update of a registered card was made less than
\* CARD_UPDATE_MIN_INTERVAL after the card's creation and after a dispatch
\* for the other card, and it was dispatched
C15_Witness ==
    \E k \in DOMAIN cardInstances : \E k2 \in CardIds \ {k} :
        /\ Throttled(k) # {}
        /\ calls[k][Min(Throttled(k))].known
        /\ calls[k][Min(Throttled(k))].at - cardInstances[k].createdAt
               < CARD_UPDATE_MIN_INTERVAL
        /\ dispatches[k2] # <<>>
        /\ dispatches[k] # <<>>
        /\ dispatches[k2][1].at <= dispatches[k][1].at
        /\ dispatches[k][1].at - dispatches[k2][1].at < CARD_UPDATE_MIN_INTERVAL
        /\ k2 \in DOMAIN cardUpdateTimestamps

\* the scheduled dispatch of call m of card k was cancelled: the call is
\* neither dispatched nor is its timer armed
Dropped(k, m) ==
    /\ calls[k][m].pc = "scheduled"
    /\ ~\E t \in timers : t.card = k /\ t.call = m /\ t.kind = "dispatch"

\* the dispatches made for call m of card k
DispatchesOf(k, m) == {j \in DOMAIN dispatches[k] : dispatches[k][j].call = m}

\* C16 (updates spaced by the interval are all sent): of two successive
\* throttled updates of one card that arrive at least
\* CARD_UPDATE_MIN_INTERVAL apart, the earlier one is not cancelled, and its
\* dispatch begins before the dispatch of the later one.
C16_SpacedAllSent ==
    \A k \in CardIds : \A m, n \in Throttled(k) :
        (n = m + 1 /\ calls[k][n].at - calls[k][m].at >= CARD_UPDATE_MIN_INTERVAL)
            => /\ ~Dropped(k, m)
               /\ DispatchesOf(k, n) # {} => DispatchesOf(k, m) # {}
               /\ \A i \in DispatchesOf(k, m) : \A j \in DispatchesOf(k, n) : i < j

\* C19 (failed dispatches are reported and retried on the next call): a
\* throttled update whose PUT failed rejects, and a throttled update made for
\* the card after a failed one, with whatever content, is dispatched or
\* awaits its timer, unless a still later update has replaced it.
C19_FailureReportedAndRetried ==
    \A k \in CardIds : \A n \in Throttled(k) :
        /\ calls[k][n].err # 0 => calls[k][n].pc = "rejected"
        /\ calls[k][n].retry =>
              \/ DispatchesOf(k, n) # {}
              \/ \E t \in timers : t.card = k /\ t.call = n /\ t.kind = "dispatch"
              \/ \E n2 \in Throttled(k) : n2 > n

\* a throttled update failed and was rejected, and the next update of the
\* card, made after the failure with the same content, was dispatched
C19_Witness ==
    \E k \in CardIds : \E m, n \in Throttled(k) :
        /\ n = m + 1
        /\ calls[k][m].err # 0
        /\ calls[k][m].pc = "rejected"
        /\ calls[k][n].retry
        /\ calls[k][n].text = calls[k][m].text
        /\ DispatchesOf(k, n) # {}

\* the dispatches of the throttler for card k that have completed
Completed(k) ==
    {n \in Throttled(k) : DispatchesOf(k, n) # {} /\ calls[k][n].pc \in {"resolved", "rejected"}}

\* the inactivity timers armed for card k
IdleTimers(k) == {t \in timers : t.card = k /\ t.kind = "idle"}

\* card k is idle after a dispatch: its last call was dispatched and has
\* completed, no other dispatch of the card is under way, and the inactivity
\* callback has not run since
IdleAfterDispatch(k) ==
    /\ calls[k] # <<>>
    /\ Len(calls[k]) \in Completed(k)
    /\ InFlight(k) = {}
    /\ ~\E f \in finalized : f.card = k /\ f.nc = Len(calls[k])

\* C21 (idle timer after every completion): once a dispatch of the throttler
\* has completed, with success or with failure, the time of the dispatch is
\* the card's recorded timestamp and exactly one inactivity timer is armed
\* for the card.
C21_IdleTimerAfterCompletion ==
    \A k \in CardIds :
        IdleAfterDispatch(k) =>
            /\ k \in DOMAIN cardUpdateTimestamps
            /\ cardUpdateTimestamps[k] = dispatches[k][Len(dispatches[k])].at
            /\ Cardinality(IdleTimers(k)) = 1

\* C22 (pending dispatches belong to open targets): every card that has an
\* armed scheduled-dispatch timer is in cardInstances and is neither evicted
\* nor finalized.
C22_PendingAreOpen ==
    \A t \in timers :
        t.kind = "dispatch" =>
            /\ t.card \in DOMAIN cardInstances
            /\ t.card \notin evicted
            /\ ~\E f \in finalized : f.card = t.card

\* the scheduled-dispatch timers armed for card k
DispatchTimers(k) == {t \in timers : t.card = k /\ t.kind = "dispatch"}

\* C23 (at most one pending dispatch per target): at most one
\* scheduled-dispatch timer is armed for a card, and the handle stored in
\* cardUpdateTimeouts for the card is the handle of that timer.
C23_OnePending ==
    \A k \in CardIds :
        /\ Cardinality(DispatchTimers(k)) <= 1
        /\ \A t \in DispatchTimers(k) :
              k \in DOMAIN cardUpdateTimeouts /\ cardUpdateTimeouts[k] = Handle(t)

\* C24 (coalescing does not change the delay): for every throttled call that
\* arrives during the throttle wait after the card's i-th dispatch, the timer
\* armed for it is due CARD_UPDATE_MIN_INTERVAL after the start of that
\* dispatch, and so begins the dispatch made for it, however many calls
\* arrived during the wait before it.
C24_DelayUnchanged ==
    \A k \in CardIds : \A i \in DOMAIN dispatches[k] : \A n \in Window(k, i) :
        /\ \A t \in DispatchTimers(k) :
              t.call = n => t.deadline = dispatches[k][i].at + CARD_UPDATE_MIN_INTERVAL
        /\ \A j \in DispatchesOf(k, n) :
              dispatches[k][j].at = dispatches[k][i].at + CARD_UPDATE_MIN_INTERVAL

\* two updates arrived during one throttle wait, at different moments after
\* the start of the last dispatch, and the later one was dispatched when the
\* interval since that start had passed
C24_Witness ==
    \E k \in CardIds : \E i \in DOMAIN dispatches[k] : \E m, n \in Window(k, i) :
        /\ m < n
        /\ dispatches[k][i].at < calls[k][m].at
        /\ calls[k][m].at < calls[k][n].at
        /\ Dropped(k, m)
        /\ \E j \in DispatchesOf(k, n) :
              dispatches[k][j].at = dispatches[k][i].at + CARD_UPDATE_MIN_INTERVAL


\* the card ids that were in cardInstances and have been removed from it: by
\* the sweep, or by the catch block of an update that ended with a terminal
\* status
Removed ==
    evicted \cup
    {k \in CardIds : \E n \in DOMAIN calls[k] :
        /\ calls[k][n].known
        /\ calls[k][n].pc = "rejected"
        /\ calls[k][n].err \in {404, 410, 403}}

\* C25 (no resurrection): no step inserts a record into cardInstances but
\* the completion of sendInteractiveCard for the id it generated, no step
\* leaves the record of a removed id in cardInstances, and an update of an
\* absent id that succeeds leaves cardInstances unchanged.
C25_NoResurrection ==
    [][/\ (DOMAIN cardInstances' \ DOMAIN cardInstances) \subseteq creating
       /\ Removed' \cap DOMAIN cardInstances' = {}
       /\ \A k \in CardIds : \A n \in DOMAIN calls[k] :
             (/\ k \notin DOMAIN cardInstances
              /\ calls[k][n].pc = "updating"
              /\ calls'[k][n].pc = "resolved")
                 => cardInstances' = cardInstances]_vars

\* an update of a card the sweep had evicted succeeded and the card is not
\* in cardInstances, nor is another card that was removed when its update
\* ended with a terminal status
C25_Witness ==
    /\ \E k \in evicted : \E n \in DOMAIN calls[k] :
          /\ ~calls[k][n].known
          /\ calls[k][n].pc = "resolved"
          /\ k \notin DOMAIN cardInstances
    /\ \E k \in Removed \ evicted : k \notin DOMAIN cardInstances

\* what the module holds for card b
CardView(b) ==
    [record |-> IF b \in DOMAIN cardInstances THEN <<cardInstances[b]>> ELSE <<>>,
     timestamp |-> IF b \in DOMAIN cardUpdateTimestamps
                   THEN <<cardUpdateTimestamps[b]>> ELSE <<>>,
     handle |-> IF b \in DOMAIN cardUpdateTimeouts
                THEN <<cardUpdateTimeouts[b]>> ELSE <<>>,
     timers |-> {t \in timers : t.card = b},
     calls |-> calls[b],
     dispatches |-> dispatches[b]]

\* C27 (independence of targets): a step of card a (a throttled update, the
\* completion of a dispatch with or without removal of the card, the firing
\* of one of its timers) leaves the record, the timestamp, the timers, the
\* calls and the dispatches of every other card as they were.
C27_Independent ==
    [][\A a \in CardIds :
          (\/ calls'[a] # calls[a]
           \/ \E f \in finalized' \ finalized : f.card = a)
              => \A b \in CardIds \ {a} : CardView(b)' = CardView(b)]_vars

\* card b is registered and has a dispatch in flight and a pending dispatch
\* timer, while card a, whose update was made after them, was removed on a
\* terminal status
C27_Witness ==
    \E a \in CardIds : \E b \in CardIds \ {a} :
        /\ b \in DOMAIN cardInstances
        /\ InFlight(b) # {}
        /\ DispatchTimers(b) # {}
        /\ \E n \in Throttled(a) :
              /\ calls[a][n].known
              /\ calls[a][n].pc = "rejected"
              /\ calls[a][n].err \in {404, 410, 403}
              /\ a \notin DOMAIN cardInstances
              /\ \A t \in DispatchTimers(b) : calls[b][t.call].at <= calls[a][n].at

\* the promise of the n-th call for card k has resolved or rejected
Settled(k, n) ==
    n \in DOMAIN calls[k] /\ calls[k][n].pc \in {"resolved", "rejected"}

\* C28 (every throttled update call settles): the promise of every call of
\* updateInteractiveCardThrottled eventually resolves or rejects, given that
\* network calls complete and timers fire.
C28_EveryCallSettles ==
    \A k \in CardIds : \A n \in 1..MaxCalls :
        [](n \in DOMAIN calls[k] => <>Settled(k, n))

\* C31 (throttler bookkeeping is bounded): a card for which no update has
\* been requested for longer than CARD_CACHE_TTL plus one sweep period has
\* no entry in cardUpdateTimestamps and none in cardUpdateTimeouts, whether
\* or not the card is, or ever was, in cardInstances.
C31_BookkeepingBounded ==
    \A k \in CardIds :
        (/\ calls[k] # <<>>
         /\ now - calls[k][Len(calls[k])].at > CARD_CACHE_TTL + CLEANUP_INTERVAL)
            => /\ k \notin DOMAIN cardUpdateTimestamps
               /\ k \notin DOMAIN cardUpdateTimeouts

\* ------------------------------------------------------------------------
\* Claims about the requests to the provider
\* ------------------------------------------------------------------------
\* C26 (credential obtained immediately before every network call): every
\* attempt of a card operation's request, the retries included, is sent with
\* a token that getAccessToken returned at the moment of the attempt, or
\* would return at that moment.
C26_TokenBeforeEveryCall ==
    \A n \in DOMAIN attempts : \A i \in DOMAIN attempts[n] :
        attempts[n][i].tokenAt = attempts[n][i].at \/ attempts[n][i].usable

\* ------------------------------------------------------------------------
\* Claims about the gateway
\* ------------------------------------------------------------------------
\* C29 (gateway stop always cleans up): once stop() of a started account has
\* been called, stopCardCacheCleanup has run, so the sweep's interval is
\* cleared, whether or not the abort signal fired before the call.
C29_StopCleansUp ==
    \A a \in Accounts : accounts[a].stopCalled => cleanupIntervalId = "null"

\* C30 (the sweep stays scheduled while the plugin is in use): whenever an
\* account has been started and not stopped, the sweep's interval is armed.
C30_SweepWhileRunning ==
    (\E a \in Accounts : Running(a)) => cleanupIntervalId = "armed"

\* ------------------------------------------------------------------------
\* Claims about the creation of cards
\* ------------------------------------------------------------------------
\* the calls of sendInteractiveCard that failed
SendErrors == {r \in sendResults : r.outcome = "error"}

\* C32 (failed creation registers nothing): a step in which
\* sendInteractiveCard throws leaves cardInstances, cardUpdateTimestamps and
\* cardUpdateTimeouts unchanged; a record enters cardInstances only in the
\* step in which the call for its id succeeds, with createdAt and
\* lastUpdated set to the time of that step; and no id of a failed call is
\* in cardInstances.
C32_FailedCreationRegistersNothing ==
    [][/\ SendErrors' # SendErrors =>
             /\ cardInstances' = cardInstances
             /\ cardUpdateTimestamps' = cardUpdateTimestamps
             /\ cardUpdateTimeouts' = cardUpdateTimeouts
       /\ \A k \in DOMAIN cardInstances' \ DOMAIN cardInstances :
             /\ [id |-> k, outcome |-> "created"] \in sendResults' \ sendResults
             /\ cardInstances'[k].createdAt = now'
             /\ cardInstances'[k].lastUpdated = now'
       /\ \A r \in SendErrors' : r.id \notin DOMAIN cardInstances']_vars

\* sendInteractiveCard has failed for want of a robotCode and has failed for
\* a card id at the provider, with an entry in cardUpdateTimestamps and in
\* cardUpdateTimeouts at that time, and it has succeeded for another id some
\* time after the module was loaded
C32_Witness ==
    /\ [id |-> "none", outcome |-> "error"] \in sendResults
    /\ \E k \in CardIds : \E k2 \in CardIds \ {k} :
          /\ [id |-> k, outcome |-> "error"] \in sendResults
          /\ k \notin DOMAIN cardInstances
          /\ k \in DOMAIN cardUpdateTimestamps
          /\ k \in DOMAIN cardUpdateTimeouts
          /\ [id |-> k2, outcome |-> "created"] \in sendResults
          /\ k2 \in DOMAIN cardInstances
          /\ cardInstances[k2].createdAt > T0

\* the cards created for the inbound message
CardsCreated == {i \in DOMAIN reply.sends : reply.sends[i].pc = "created"}

\* C33 (one card per inbound message): at most one interactive card is
\* created for an inbound message in card mode, counting the thinking
\* message and every call of the deliver callback.
C33_OneCardPerMessage == Cardinality(CardsCreated) <= 1

\* ------------------------------------------------------------------------
\* Claims about the direct-message policy
\* ------------------------------------------------------------------------
\* the sender id is in the list: it equals an entry, leaving aside case, the
\* blanks around an entry and a channel prefix of an entry, or the list has
\* the wildcard entry
InAllowFrom(senderId, allowFrom) ==
    \E i \in 1..Len(allowFrom) :
        \/ Trim(allowFrom[i]) = <<"*">>
        \/ /\ senderId # <<>>
           /\ Trim(allowFrom[i]) # <<>>
           /\ ToLowerCase(StripChannelPrefix(Trim(allowFrom[i]))) = ToLowerCase(senderId)

\* C20 (allowlist policy): under dmPolicy 'allowlist' a direct message is
\* processed only if its sender id is in the allowFrom list, whatever the
\* list, the empty list included.
C20_AllowlistBlocks ==
    \A h \in handled :
        (h.isDirect /\ h.dmPolicy = "allowlist" /\ h.outcome = "processed")
            => InAllowFrom(h.senderId, h.allowFrom)

====
